---------------------------- MODULE Spec2Model ----------------------------
(***************************************************************************)
(* Model of face_service.py: the Flask proctoring service.                 *)
(*                                                                         *)
(* State: the process-wide ledger violation_counts, the request being      *)
(* answered and its response.  One action per endpoint, each the whole     *)
(* handler (Spec: requests handled one at a time).  ConcSpec runs the      *)
(* recording statements of the handlers as the separate steps a threaded   *)
(* server interleaves.  DetectorSpec applies the detectors, which are pure  *)
(* functions of the frame, to inputs around their thresholds.              *)
(***************************************************************************)
EXTENDS Integers, Sequences, FiniteSets, TLC

VARIABLES
    violation_counts,   \* the defaultdict(int): a function on the keys created so far
    req,                \* the form of the request handled last
    resp,               \* the response returned to it
    ran,                \* the checks that request evaluated, in order
    recorded,           \* history: per user, how often a violation was recorded
    pc,                 \* ConcSpec: where each in-flight recording call stands
    tform,              \* ConcSpec: each call's user and violation kind
    loaded,             \* ConcSpec: the value read by "violation_counts[username] += 1"
    tresp,              \* ConcSpec: each call's response
    probe               \* DetectorSpec: one detector call, its input and its result

vars == <<violation_counts, req, resp, ran, recorded, pc, tform, loaded, tresp, probe>>

seqVars == <<req, resp, ran, recorded>>
concVars == <<pc, tform, loaded, tresp>>

-----------------------------------------------------------------------------
(* Constants of the program and bounds of the model *)

MAX_VIOLATIONS == 10

\* No recording is started for a user whose count has reached MaxCount.
MaxCount == 12

\* Number of concurrent recording calls in ConcSpec.
NumThreads == 3

Users == {"alice", "bob"}

\* request.form.get(...) of an absent field
NONE == "<none>"

Threads == 1..NumThreads

-----------------------------------------------------------------------------
(* Requests *)

\* key_indices = [1, 33, 263, 61, 291, 13, 14]
NumKeyPoints == 7

\* One eye's landmarks, x coordinates in thousandths of the frame width: the two
\* corners and the iris centre; ok is FALSE when a landmark is not there.
Eye(l, r, iris) == [ok |-> TRUE, l |-> l, r |-> r, iris |-> iris]
MissingEye      == [ok |-> FALSE, l |-> 0, r |-> 0, iris |-> 0]

\* An eye 100 wide whose iris stands at ratio/1000 of the width.
EyeAt(ratio) == Eye(400, 500, 400 + ratio \div 10)

CenterEyes == [left |-> EyeAt(500), right |-> EyeAt(500)]
AwayEyes   == [left |-> EyeAt(300), right |-> EyeAt(300)]

\* A detection of the object detector: label and confidence in hundredths.
Box(label, conf) == [label |-> label, conf |-> conf]

NoBoxes    == << >>
PhoneBoxes == << Box("cell phone", 80) >>

\* Displacement of a key point between reference and frame, hundredths: (dx, dy).
Far   == <<6, 8>>     \* distance 0.10
Near  == <<3, 4>>     \* distance 0.05

AllFar == [i \in 1..NumKeyPoints |-> Far]

\* score: the template-matching maximum in hundredths; disp: the displacement of
\* each key point.
Sim(score, disp) == [score |-> score, disp |-> disp]

MatchSim    == Sim(70, AllFar)                              \* tier 1 accepts
MismatchSim == Sim(69, AllFar)                              \* mean distance 0.1
NearSim     == Sim(69, [AllFar EXCEPT ![1] = Near])         \* mean below 0.1

\* What the detectors see in a decoded frame.
Frame(faces, sim, boxes, ear, eyes, raises) ==
    [ faces  |-> faces,    \* faces the landmark extractor reports
      sim    |-> sim,      \* similarity to the reference
      boxes  |-> boxes,    \* the object detector's results, in its order
      ear    |-> ear,      \* the ear-accessory heuristic finds something
      eyes   |-> eyes,     \* the eye landmarks of the first face
      raises |-> raises ]  \* the detector that fails on this frame, or "none"

Frames ==
    { Frame(faces, sim, boxes, FALSE, eyes, "none") :
        faces \in {1, 2}, sim \in {MatchSim, MismatchSim},
        boxes \in {NoBoxes, PhoneBoxes}, eyes \in {CenterEyes, AwayEyes} }

NoFrame == Frame(1, MatchSim, NoBoxes, FALSE, CenterEyes, "none")

\* The image field as its comma-separated parts; <<>> is an absent or empty field.
GoodImage == <<"data:image/png;base64", "FRAME">>
MalformedImages == { <<"nocomma">>, <<"a", "b", "c">> }

\* The reference_face field: absent, empty, an image of the user's face, a file
\* that does not exist, an image without a face, a file that is no image.
References == {NONE, "", "ref.png", "missing.png", "noface.png", "corrupt.png"}

Form(ep, user, image, ref, noise, frame) ==
    [ endpoint |-> ep, username |-> user, image |-> image,
      reference_face |-> ref, noise_violation |-> noise, frame |-> frame ]

NoForm == Form("", NONE, <<>>, NONE, NONE, NoFrame)

-----------------------------------------------------------------------------
(* Responses *)

Resp(status, token, kind, item, count) ==
    [ status |-> status, token |-> token, kind |-> kind, item |-> item, count |-> count ]

Plain(token)  == Resp(200, token, "", "", 0)
ERROR400      == Resp(400, "ERROR", "", "", 0)
\* An exception that leaves the handler: Flask answers 500.
Unhandled     == Resp(500, "INTERNAL_SERVER_ERROR", "", "", 0)
NoResp        == Resp(0, "", "", "", 0)

\* f"VIOLATION:{kind}:{count}" and f"VIOLATION:PROHIBITED_ITEM:{item}:{count}"
Violation(kind, item, count) == Resp(200, "VIOLATION", kind, item, count)


-----------------------------------------------------------------------------
(* The ledger *)

\* violation_counts[username] read through the defaultdict: an absent key reads 0
Count(vc, u) == IF u \in DOMAIN vc THEN vc[u] ELSE 0

\* Record that stops counting once the threshold is reached.
RecordSaturating(vc, u) ==
    IF Count(vc, u) >= MAX_VIOLATIONS
    THEN vc
    ELSE [k \in DOMAIN vc \cup {u} |-> IF k = u THEN Count(vc, u) + 1 ELSE vc[k]]

\* violation_counts[username] += 1, executed without interruption
Record(vc, u) ==
    [k \in DOMAIN vc \cup {u} |-> IF k = u THEN Count(vc, u) + 1 ELSE vc[k]]

\* Terminal with == for >=, and with > for >=.
TerminalOnlyAtThreshold(count) == count = MAX_VIOLATIONS
TerminalAfterThreshold(count) == count > MAX_VIOLATIONS

\* if count >= MAX_VIOLATIONS
Terminal(count) == count >= MAX_VIOLATIONS

\* Signal without the threshold test.
SignalWithoutThreshold(kind, item, count) == Violation(kind, item, count)

\* The tail shared by the six recording sites: count = violation_counts[username],
\* then MAX_VIOLATIONS or the VIOLATION string carrying kind and count.
Signal(kind, item, count) ==
    IF Terminal(count) THEN Plain("MAX_VIOLATIONS") ELSE Violation(kind, item, count)

-----------------------------------------------------------------------------
(* Helpers of the handlers *)

\* parts = data_url.split(","); None unless there are exactly two parts
save_image_from_base64(image) ==
    IF Len(image) # 2 THEN NONE ELSE "captured_images/frame.png"

\* The field test that takes an empty field for a present one.
MissingOnlyAbsent(x) == x = NONE

\* "not x" for a form field: the field is absent or empty
Missing(x) == x = NONE \/ x = ""

\* os.path.exists(reference_face_path)
Exists(ref) == ref \in {"ref.png", "noface.png", "corrupt.png"}

\* cv2.imread of the reference gives None for a file that is not there or no image
Readable(ref) == ref \in {"ref.png", "noface.png"}

\* ref_results.multi_face_landmarks: the reference shows a face
RefHasFace(ref) == ref = "ref.png"

\* Thresholds of compare_faces: max_val >= 0.7 (hundredths), avg_distance < 0.1
\* (both in hundredths).
MatchScore      == 70
MaxMeanDistance == 10

\* np.sqrt(dx**2 + dy**2) of one key point, to the hundredth below; the root
\* lies between the longer side and the sum of the two.
Distance(d) ==
    LET n  == d[1] * d[1] + d[2] * d[2]
        lo == IF d[1] > d[2] THEN d[1] ELSE d[2]
    IN  CHOOSE r \in lo..(d[1] + d[2]) : r * r <= n /\ (r + 1) * (r + 1) > n

\* total_distance after the loop over the first n key points
RECURSIVE TotalDistance(_, _)
TotalDistance(disp, n) ==
    IF n = 0 THEN 0
    ELSE TotalDistance(disp, n - 1) + Distance(disp[n])

\* The geometry tier that accepts a mean distance of exactly 0.1.
landmark_matchInclusive(ref, frame) ==
    /\ RefHasFace(ref) /\ frame.faces >= 1
    /\ TotalDistance(frame.sim.disp, NumKeyPoints) \div NumKeyPoints <= MaxMeanDistance

\* compare_faces, the tier of the face landmarks: both faces found and the mean
\* distance over the key points below the threshold
landmark_match(ref, frame) ==
    /\ RefHasFace(ref) /\ frame.faces >= 1
    /\ TotalDistance(frame.sim.disp, NumKeyPoints) \div NumKeyPoints < MaxMeanDistance

\* compare_faces that lets an unreadable reference pass.
compare_faces_runFailOpen(ref, frame) ==
    IF ~Readable(ref) THEN [match |-> TRUE, tiers |-> <<>>]
    ELSE IF frame.sim.score >= MatchScore
    THEN [match |-> TRUE, tiers |-> <<"template">>]
    ELSE [match |-> landmark_match(ref, frame), tiers |-> <<"template", "landmarks">>]

\* compare_faces: the verdict and the tiers it went through
compare_faces_run(ref, frame) ==
    IF ~Readable(ref) THEN [match |-> FALSE, tiers |-> <<>>]
    ELSE IF frame.sim.score >= MatchScore
    THEN [match |-> TRUE, tiers |-> <<"template">>]
    ELSE [match |-> landmark_match(ref, frame), tiers |-> <<"template", "landmarks">>]

compare_faces(ref, frame) == compare_faces_run(ref, frame).match

\* The detector named fails (raises) on the frame.
Raises(frame, detector) == frame.raises = detector

detect_multiple_faces(frame) == frame.faces > 1

\* HORIZONTAL_THRESHOLD = 0.35, in thousandths
HORIZONTAL_THRESHOLD == 350

\* get_gaze_ratio: 0.5 for missing landmarks or an eye of width zero.  The eyes
\* of the model have widths that divide the numerator, so the quotient is exact.
get_gaze_ratio(eye) ==
    IF ~eye.ok THEN 500
    ELSE LET eye_width == eye.r - eye.l IN
         IF eye_width = 0 THEN 500
         ELSE ((eye.iris - eye.l) * 1000) \div eye_width

\* left_gaze_ratio + right_gaze_ratio: twice avg_gaze_ratio, kept undivided so
\* that no half of a thousandth is lost
gaze_ratio_sum(frame) ==
    get_gaze_ratio(frame.eyes.left) + get_gaze_ratio(frame.eyes.right)

\* The band test with the boundary counted as off-centre.
off_centerInclusive(sum) ==
    sum <= 2 * HORIZONTAL_THRESHOLD \/ sum >= 2 * (1000 - HORIZONTAL_THRESHOLD)

\* avg_gaze_ratio < HORIZONTAL_THRESHOLD or avg_gaze_ratio > (1 - HORIZONTAL_THRESHOLD),
\* on twice the average
off_center(sum) ==
    sum < 2 * HORIZONTAL_THRESHOLD \/ sum > 2 * (1000 - HORIZONTAL_THRESHOLD)

\* True when the gaze is fine, also when no face is found
detect_gaze(frame) ==
    IF frame.faces >= 1 THEN ~off_center(gaze_ratio_sum(frame)) ELSE TRUE

PROHIBITED_ITEMS ==
    [ label \in {"cell phone", "book", "laptop", "mouse", "keyboard", "remote", "cup"} |->
        CASE label = "cell phone" -> "MOBILE_PHONE"
          [] label = "book"       -> "BOOK"
          [] label = "laptop"     -> "LAPTOP"
          [] label = "mouse"      -> "MOUSE"
          [] label = "keyboard"   -> "KEYBOARD"
          [] label = "remote"     -> "REMOTE"
          [] label = "cup"        -> "CUP" ]

\* class_name.lower(), on the labels of the model
Lower(label) ==
    CASE label = "Cell Phone" -> "cell phone"
      [] label = "BOOK"       -> "book"
      [] OTHER                -> label

\* conf > 0.5, in hundredths
MinConfidence == 50

\* The confidence test that lets a detection at the floor count.
confidentInclusive(conf) == conf >= MinConfidence

\* conf > 0.5
confident(conf) == conf > MinConfidence

\* The loop over the boxes: the category of the first one that is in the table
\* with sufficient confidence, NONE when the loop ends without one.
RECURSIVE first_prohibited(_)
first_prohibited(boxes) ==
    IF boxes = << >> THEN NONE
    ELSE IF Lower(Head(boxes).label) \in DOMAIN PROHIBITED_ITEMS /\ confident(Head(boxes).conf)
    THEN PROHIBITED_ITEMS[Lower(Head(boxes).label)]
    ELSE first_prohibited(Tail(boxes))

\* detect_airpods_headsets: a region near an ear of the face found
detect_airpods_headsets(frame) ==
    IF frame.faces >= 1 /\ frame.ear THEN "AIRPODS_OR_HEADSET" ELSE NONE

\* detect_prohibited_items: the item found and whether the ear heuristic was
\* consulted; a failure of the detector is caught and gives None.
detect_prohibited_items_run(frame) ==
    IF Raises(frame, "prohibited_item")
    THEN [item |-> NONE, heuristic |-> FALSE]
    ELSE IF first_prohibited(frame.boxes) # NONE
    THEN [item |-> first_prohibited(frame.boxes), heuristic |-> FALSE]
    ELSE [item |-> detect_airpods_headsets(frame), heuristic |-> TRUE]

detect_prohibited_items(frame) == detect_prohibited_items_run(frame).item

detect_face(frame) == frame.faces >= 1

\* What a handler yields: the ledger after it, its response, the checks it
\* evaluated, and whether it recorded a violation.
Out(vc, r, checks, rec) == [counts |-> vc, resp |-> r, ran |-> checks, rec |-> rec]

-----------------------------------------------------------------------------
(* The handlers, each as a function of the form and the ledger *)

\* capture_violations with the gaze check ahead of the prohibited-item check.
capture_violationsGazeFirst(form, vc) ==
    LET image == form.frame
        user  == form.username
        vc1   == Record(vc, user)
    IN
    IF Raises(image, "gaze")
    THEN Out(vc, Unhandled, <<"multi_face", "identity", "gaze">>, FALSE)
    ELSE IF ~detect_gaze(image)
    THEN Out(vc1, Signal("GAZE_VIOLATION", "", Count(vc1, user)),
             <<"multi_face", "identity", "gaze">>, TRUE)
    ELSE IF detect_prohibited_items(image) # NONE
    THEN Out(vc1,
             Signal("PROHIBITED_ITEM", detect_prohibited_items(image), Count(vc1, user)),
             <<"multi_face", "identity", "gaze", "prohibited_item">>, TRUE)
    ELSE IF form.noise_violation = "true"
    THEN Out(vc1, Signal("NOISE_VIOLATION", "", Count(vc1, user)),
             <<"multi_face", "identity", "gaze", "prohibited_item", "noise">>, TRUE)
    ELSE Out(vc, Plain("OK"),
             <<"multi_face", "identity", "gaze", "prohibited_item", "noise">>, FALSE)

\* capture(), steps 3 to 5 and the final OK: the checks that record a violation.
\* detect_gaze has no try/except: its failure leaves the handler.
capture_violations(form, vc) ==
    LET image == form.frame
        user  == form.username
        vc1   == Record(vc, user)
    IN
    IF detect_prohibited_items(image) # NONE
    THEN Out(vc1,
             Signal("PROHIBITED_ITEM", detect_prohibited_items(image), Count(vc1, user)),
             <<"multi_face", "identity", "prohibited_item">>, TRUE)
    ELSE IF Raises(image, "gaze")
    THEN Out(vc, Unhandled, <<"multi_face", "identity", "prohibited_item", "gaze">>, FALSE)
    ELSE IF ~detect_gaze(image)
    THEN Out(vc1, Signal("GAZE_VIOLATION", "", Count(vc1, user)),
             <<"multi_face", "identity", "prohibited_item", "gaze">>, TRUE)
    ELSE IF form.noise_violation = "true"
    THEN Out(vc1, Signal("NOISE_VIOLATION", "", Count(vc1, user)),
             <<"multi_face", "identity", "prohibited_item", "gaze", "noise">>, TRUE)
    ELSE Out(vc, Plain("OK"),
             <<"multi_face", "identity", "prohibited_item", "gaze", "noise">>, FALSE)

\* capture_identity that counts a mismatch as a violation.
capture_identityCounted(form, vc) ==
    IF ~compare_faces(form.reference_face, form.frame)
    THEN Out(Record(vc, form.username), Plain("FACE_MISMATCH"),
             <<"multi_face", "identity">>, TRUE)
    ELSE capture_violations(form, vc)

\* capture(), step 2: the identity check, then the rest.
capture_identity(form, vc) ==
    IF ~compare_faces(form.reference_face, form.frame)
    THEN Out(vc, Plain("FACE_MISMATCH"), <<"multi_face", "identity">>, FALSE)
    ELSE capture_violations(form, vc)

\* capture_enroll that goes on to the noise flag when one face is present.
capture_enrollNoise(form, vc) ==
    IF Raises(form.frame, "multi_face")
    THEN Out(vc, Unhandled, <<"multi_face">>, FALSE)
    ELSE IF detect_multiple_faces(form.frame)
    THEN Out(vc, Plain("MULTIPLE_FACES"), <<"multi_face">>, FALSE)
    ELSE IF form.noise_violation = "true"
    THEN LET vc1 == Record(vc, form.username) IN
         Out(vc1, Signal("NOISE_VIOLATION", "", Count(vc1, form.username)),
             <<"multi_face", "noise">>, TRUE)
    ELSE Out(vc, Plain("OK"), <<"multi_face">>, FALSE)

\* capture(), the branch of a request without reference_face.
\* detect_multiple_faces has no try/except: its failure leaves the handler.
capture_enroll(form, vc) ==
    IF Raises(form.frame, "multi_face")
    THEN Out(vc, Unhandled, <<"multi_face">>, FALSE)
    ELSE IF detect_multiple_faces(form.frame)
    THEN Out(vc, Plain("MULTIPLE_FACES"), <<"multi_face">>, FALSE)
    ELSE Out(vc, Plain("OK"), <<"multi_face">>, FALSE)

\* capture(): imread_raises is the build's behaviour on cv2.imread(None): it
\* raises, or it returns None and the first cvtColor of the frame raises.
capture(form, vc, imread_raises) ==
    IF form.image = <<>> \/ Missing(form.username)
    THEN Out(vc, ERROR400, <<>>, FALSE)
    ELSE IF save_image_from_base64(form.image) = NONE
    THEN Out(vc, Unhandled, IF imread_raises THEN <<>> ELSE <<"multi_face">>, FALSE)
    ELSE IF form.reference_face = NONE
    THEN capture_enroll(form, vc)
    ELSE IF Raises(form.frame, "multi_face")
    THEN Out(vc, Unhandled, <<"multi_face">>, FALSE)
    ELSE IF detect_multiple_faces(form.frame)
    THEN Out(vc, Plain("MULTIPLE_FACES"), <<"multi_face">>, FALSE)
    ELSE capture_identity(form, vc)

fullscreen_violation(form, vc) ==
    IF Missing(form.username)
    THEN Out(vc, ERROR400, <<>>, FALSE)
    ELSE LET vc1 == Record(vc, form.username) IN
         Out(vc1, Signal("FULLSCREEN", "", Count(vc1, form.username)), <<>>, TRUE)

tab_change_violation(form, vc) ==
    IF Missing(form.username)
    THEN Out(vc, ERROR400, <<>>, FALSE)
    ELSE LET vc1 == Record(vc, form.username) IN
         Out(vc1, Signal("TAB_CHANGE", "", Count(vc1, form.username)), <<>>, TRUE)

window_change_violation(form, vc) ==
    IF Missing(form.username)
    THEN Out(vc, ERROR400, <<>>, FALSE)
    ELSE LET vc1 == Record(vc, form.username) IN
         Out(vc1, Signal("WINDOW_CHANGE", "", Count(vc1, form.username)), <<>>, TRUE)

\* validate_face(): a malformed payload leaves curr_path None and the frame
\* unreadable, and detect_face (or imread) raises.
validate_face(form, vc) ==
    IF form.image = <<>>
    THEN Out(vc, ERROR400, <<>>, FALSE)
    ELSE IF save_image_from_base64(form.image) = NONE
    THEN Out(vc, Unhandled, <<>>, FALSE)
    ELSE IF ~detect_face(form.frame)
    THEN Out(vc, Plain("NO_FACE_DETECTED"), <<"face">>, FALSE)
    ELSE IF ~Missing(form.reference_face) /\ Exists(form.reference_face)
    THEN IF compare_faces(form.reference_face, form.frame)
         THEN Out(vc, Plain("FACE_MATCH"), <<"face", "identity">>, FALSE)
         ELSE Out(vc, Plain("NO_FACE_MATCH"), <<"face", "identity">>, FALSE)
    ELSE Out(vc, Plain("FACE_DETECTED"), <<"face">>, FALSE)

\* submit_exam that closes the user's account in the ledger.
submit_examClears(form, vc) ==
    Out([k \in DOMAIN vc \ {form.username} |-> vc[k]], Plain("OK"), <<>>, FALSE)

submit_exam(form, vc) == Out(vc, Plain("OK"), <<>>, FALSE)

-----------------------------------------------------------------------------
(* Spec: requests handled one at a time *)

UsernameInputs == Users \cup {NONE, ""}

\* Frames in which the identity, prohibited-item and gaze checks all pass or all fail.
ExtremeFrames ==
    { f \in Frames :
        \/ /\ compare_faces("ref.png", f)
           /\ detect_prohibited_items(f) = NONE
           /\ detect_gaze(f)
        \/ /\ ~compare_faces("ref.png", f)
           /\ detect_prohibited_items(f) # NONE
           /\ ~detect_gaze(f) }

\* Frames on which one detector fails, and which are in order otherwise.
RaisingFrames ==
    { Frame(1, MatchSim, NoBoxes, FALSE, CenterEyes, d) :
        d \in {"multi_face", "prohibited_item", "gaze"} }

\* Frames at the edges of the detectors: nobody in view, a face the template
\* misses and the landmarks accept, something at the ear, a detection at the
\* confidence floor, a label in capitals, a gaze on the band's boundary.
EdgeFrames ==
    { Frame(0, NearSim, NoBoxes, FALSE, CenterEyes, "none"),
      Frame(0, MatchSim, NoBoxes, FALSE, AwayEyes, "none"),
      Frame(1, NearSim, NoBoxes, FALSE, CenterEyes, "none"),
      Frame(1, MatchSim, NoBoxes, TRUE, CenterEyes, "none"),
      Frame(1, MatchSim, << Box("cell phone", 50) >>, FALSE, CenterEyes, "none"),
      Frame(1, MatchSim, << Box("person", 90), Box("BOOK", 60) >>, FALSE, CenterEyes, "none"),
      Frame(1, MatchSim, NoBoxes, FALSE, [left |-> EyeAt(350), right |-> EyeAt(350)], "none"),
      Frame(1, MatchSim, NoBoxes, FALSE, [left |-> MissingEye, right |-> Eye(400, 400, 400)], "none") }

CaptureForms ==
    { Form("capture", u, GoodImage, "ref.png", noise, f) :
        u \in Users, noise \in {"true", "false"}, f \in Frames }
    \cup
    { Form("capture", u, GoodImage, NONE, noise, f) :
        u \in Users, noise \in {"true", "false"}, f \in ExtremeFrames }
    \cup
    { Form("capture", u, GoodImage, ref, "false", f) :
        u \in Users, ref \in {"", "missing.png", "noface.png", "corrupt.png"},
        f \in {g \in ExtremeFrames : g.faces = 1} }
    \cup
    { Form("capture", "alice", GoodImage, "ref.png", "false", f) :
        f \in RaisingFrames \cup EdgeFrames }
    \cup
    { Form("capture", "alice", GoodImage, NONE, "false", f) : f \in RaisingFrames }
    \cup
    { Form("capture", "alice", GoodImage, "noface.png", "false",
           Frame(1, NearSim, NoBoxes, FALSE, CenterEyes, "none")) }
    \cup
    { Form("capture", u, img, "ref.png", "false", NoFrame) :
        u \in Users, img \in MalformedImages \cup {<<>>} }
    \cup
    { Form("capture", "alice", <<"nocomma">>, NONE, "false", NoFrame) }
    \cup
    { Form("capture", u, img, "ref.png", "false", NoFrame) :
        u \in {NONE, ""}, img \in {<<>>, <<"nocomma">>, GoodImage} }

EventForms(ep) == { Form(ep, u, <<>>, NONE, NONE, NoFrame) : u \in UsernameInputs }

ValidateForms ==
    { Form("validate-face", NONE, GoodImage, ref, NONE, f) :
        ref \in References,
        f \in {g \in Frames : g.faces = 1 /\ g.boxes = NoBoxes /\ g.eyes = CenterEyes}
              \cup {Frame(0, MismatchSim, NoBoxes, FALSE, CenterEyes, "none")} }
    \cup
    { Form("validate-face", NONE, img, NONE, NONE, NoFrame) :
        img \in MalformedImages \cup {<<>>} }

SubmitForms == { Form("submit", u, <<>>, NONE, NONE, NoFrame) : u \in UsernameInputs }

\* The effect of one handled request on the state.
Handle(form, o) ==
    /\ o.rec => Count(violation_counts, form.username) < MaxCount
    /\ violation_counts' = o.counts
    /\ req' = form
    /\ resp' = o.resp
    /\ ran' = o.ran
    /\ recorded' = IF o.rec
                   THEN [recorded EXCEPT ![form.username] = @ + 1]
                   ELSE recorded
    /\ UNCHANGED <<concVars, probe>>

Capture ==
    \E form \in CaptureForms :
        \E imread_raises \in (IF Len(form.image) = 2 THEN {TRUE} ELSE BOOLEAN) :
            Handle(form, capture(form, violation_counts, imread_raises))

FullscreenViolation ==
    \E form \in EventForms("fullscreen-violation") :
        Handle(form, fullscreen_violation(form, violation_counts))

TabChangeViolation ==
    \E form \in EventForms("tab-change-violation") :
        Handle(form, tab_change_violation(form, violation_counts))

WindowChangeViolation ==
    \E form \in EventForms("window-change-violation") :
        Handle(form, window_change_violation(form, violation_counts))

ValidateFace ==
    \E form \in ValidateForms : Handle(form, validate_face(form, violation_counts))

SubmitExam ==
    \E form \in SubmitForms : Handle(form, submit_exam(form, violation_counts))

\* The service after start-up: an empty ledger and nothing in flight.
ServiceInit ==
    /\ violation_counts = << >>
    /\ req = NoForm
    /\ resp = NoResp
    /\ ran = <<>>
    /\ recorded = [u \in Users |-> 0]
    /\ pc = [t \in Threads |-> "idle"]
    /\ tform = [t \in Threads |-> [username |-> NONE, kind |-> ""]]
    /\ loaded = [t \in Threads |-> 0]
    /\ tresp = [t \in Threads |-> NoResp]

\* A detector call: the function, its input, and its result once it has returned.
Probe(fn, input) == [fn |-> fn, input |-> input, output |-> NONE, done |-> FALSE]

NoProbe == Probe("", NoFrame)

Init == ServiceInit /\ probe = NoProbe

Next ==
    \/ Capture
    \/ FullscreenViolation
    \/ TabChangeViolation
    \/ WindowChangeViolation
    \/ ValidateFace
    \/ SubmitExam

Spec == Init /\ [][Next]_vars

-----------------------------------------------------------------------------
(* ConcSpec: recording calls of a threaded server.  The handlers share the  *)
(* ledger without a lock, and "violation_counts[username] += 1" is a read,  *)
(* an addition and a write that another thread's steps can come between.    *)

\* The six recording sites, by the kind their response names.
Kinds == { "PROHIBITED_ITEM", "GAZE_VIOLATION", "NOISE_VIOLATION",
           "FULLSCREEN", "TAB_CHANGE", "WINDOW_CHANGE" }

\* The sites the calls of ConcSpec go through (the six are the same statements).
ConcKinds == {"PROHIBITED_ITEM", "FULLSCREEN", "TAB_CHANGE"}

ItemOf(kind) == IF kind = "PROHIBITED_ITEM" THEN "MOBILE_PHONE" ELSE ""

\* A call arrives and reaches a recording site for its user.
Enter(t) ==
    /\ pc[t] = "idle"
    /\ \E u \in Users, kind \in ConcKinds :
           tform' = [tform EXCEPT ![t] = [username |-> u, kind |-> kind]]
    /\ pc' = [pc EXCEPT ![t] = "load"]
    /\ UNCHANGED <<violation_counts, loaded, tresp, seqVars, probe>>

\* A call for a user that returns without reaching a recording site: a capture
\* of a clean frame, a submit.
Answer(t) ==
    /\ pc[t] = "idle"
    /\ \E u \in Users :
           tform' = [tform EXCEPT ![t] = [username |-> u, kind |-> ""]]
    /\ tresp' = [tresp EXCEPT ![t] = Plain("OK")]
    /\ pc' = [pc EXCEPT ![t] = "done"]
    /\ UNCHANGED <<violation_counts, loaded, seqVars, probe>>

\* The read of violation_counts[username] += 1; the defaultdict creates the key.
Load(t) ==
    /\ pc[t] = "load"
    /\ LET u == tform[t].username IN
       /\ loaded' = [loaded EXCEPT ![t] = Count(violation_counts, u)]
       /\ violation_counts' =
              [k \in DOMAIN violation_counts \cup {u} |-> Count(violation_counts, k)]
    /\ pc' = [pc EXCEPT ![t] = "store"]
    /\ UNCHANGED <<tform, tresp, seqVars, probe>>

\* The write that also puts back the other entries as a stale copy had them.
StoreClobbering(t) ==
    /\ pc[t] = "store"
    /\ violation_counts' =
           [k \in DOMAIN violation_counts \cup {tform[t].username} |->
               IF k = tform[t].username THEN loaded[t] + 1 ELSE 0]
    /\ pc' = [pc EXCEPT ![t] = "read"]
    /\ UNCHANGED <<tform, loaded, tresp, seqVars, probe>>

\* The write of violation_counts[username] += 1.
Store(t) ==
    /\ pc[t] = "store"
    /\ violation_counts' =
           [k \in DOMAIN violation_counts \cup {tform[t].username} |->
               IF k = tform[t].username THEN loaded[t] + 1 ELSE violation_counts[k]]
    /\ pc' = [pc EXCEPT ![t] = "read"]
    /\ UNCHANGED <<tform, loaded, tresp, seqVars, probe>>

\* count = violation_counts[username] and the return statement.
ReadBack(t) ==
    /\ pc[t] = "read"
    /\ tresp' = [tresp EXCEPT ![t] =
                    Signal(tform[t].kind, ItemOf(tform[t].kind),
                           Count(violation_counts, tform[t].username))]
    /\ pc' = [pc EXCEPT ![t] = "done"]
    /\ UNCHANGED <<violation_counts, tform, loaded, seqVars, probe>>

ConcNext ==
    \E t \in Threads : Enter(t) \/ Answer(t) \/ Load(t) \/ Store(t) \/ ReadBack(t)

ConcSpec == Init /\ [][ConcNext]_vars

-----------------------------------------------------------------------------
(* DetectorSpec: one call of a detector, or of capture on a fresh ledger, on *)
(* an input around the detectors' thresholds                                *)

\* Largest number of detections in a probed frame.
MaxBoxes == 2

\* Eyes probed: landmarks missing, an eye of width zero, and irises at chosen
\* ratios (thousandths) of eyes 100 and 200 wide.
ProbeEyes ==
    { MissingEye, Eye(400, 400, 400), Eye(300, 500, 370), Eye(300, 500, 430) }
    \cup { EyeAt(ratio) : ratio \in {0, 300, 340, 350, 360, 500, 640, 650, 660, 1000} }

GazeFrames ==
    { Frame(faces, MatchSim, NoBoxes, FALSE, [left |-> l, right |-> r], "none") :
        faces \in {0, 1}, l \in ProbeEyes, r \in ProbeEyes }

\* Detections probed: a label of the table as the detector spells it, one in
\* capitals, one that is not in the table; confidences at and around the floor.
ProbeBoxes ==
    { Box(label, conf) : label \in {"cell phone", "BOOK", "person"}, conf \in {50, 51, 80} }

RECURSIVE BoxSeqs(_)
BoxSeqs(n) ==
    IF n = 0 THEN { << >> }
    ELSE BoxSeqs(n - 1)
         \cup { Append(q, b) : q \in {x \in BoxSeqs(n - 1) : Len(x) = n - 1}, b \in ProbeBoxes }

ItemFrames ==
    { Frame(1, MatchSim, boxes, ear, CenterEyes, raises) :
        boxes \in BoxSeqs(MaxBoxes), ear \in BOOLEAN, raises \in {"none", "prohibited_item"} }

\* Displacements probed: those with a whole distance (0, 0.05, 0.10, 0.13).
Displacements == { <<0, 0>>, Near, Far, <<5, 12>> }

ProbeDisps ==
    { [i \in 1..NumKeyPoints |-> d] : d \in Displacements }
    \cup { [AllFar EXCEPT ![i] = d] : i \in 1..NumKeyPoints, d \in Displacements }

FaceInputs ==
    { [ ref |-> ref,
        frame |-> Frame(faces, Sim(score, disp), NoBoxes, FALSE, CenterEyes, "none") ] :
        ref \in {"ref.png", "noface.png", "missing.png", "corrupt.png"},
        faces \in {0, 1}, score \in {69, 70, 71}, disp \in ProbeDisps }

Probes ==
    { Probe("detect_gaze", f) : f \in GazeFrames }
    \cup { Probe("detect_prohibited_items", f) : f \in ItemFrames }
    \cup { Probe("compare_faces", i) : i \in FaceInputs }
    \cup { Probe("capture", Form("capture", "alice", GoodImage, "ref.png", "false", f)) :
             f \in ItemFrames }

\* The call returns: probe holds the result.
Return(result) ==
    /\ ~probe.done
    /\ probe' = [probe EXCEPT !.output = result, !.done = TRUE]
    /\ UNCHANGED <<violation_counts, seqVars, concVars>>

DetectGaze ==
    /\ probe.fn = "detect_gaze"
    /\ Return(detect_gaze(probe.input))

DetectProhibitedItems ==
    /\ probe.fn = "detect_prohibited_items"
    /\ Return(detect_prohibited_items_run(probe.input))

CompareFaces ==
    /\ probe.fn = "compare_faces"
    /\ Return(compare_faces_run(probe.input.ref, probe.input.frame))

\* capture() on the empty ledger of a fresh process
CaptureFresh ==
    /\ probe.fn = "capture"
    /\ Return(capture(probe.input, << >>, TRUE))

DetectorInit == ServiceInit /\ probe \in Probes

DetectorNext == DetectGaze \/ DetectProhibitedItems \/ CompareFaces \/ CaptureFresh

DetectorSpec == DetectorInit /\ [][DetectorNext]_vars

-----------------------------------------------------------------------------
(* Properties *)

Ledger(u) == Count(violation_counts, u)

EventEndpoints ==
    {"fullscreen-violation", "tab-change-violation", "window-change-violation"}

\* The kind a standalone endpoint's VIOLATION response names.
EventKind(ep) ==
    CASE ep = "fullscreen-violation"    -> "FULLSCREEN"
      [] ep = "tab-change-violation"    -> "TAB_CHANGE"
      [] ep = "window-change-violation" -> "WINDOW_CHANGE"
      [] OTHER                          -> ""

CaptureKinds == {"PROHIBITED_ITEM", "GAZE_VIOLATION", "NOISE_VIOLATION"}

\* C1: with calls executed one at a time, every user's stored count equals the
\* number of violations recorded for that user so far, whatever their kinds and
\* also past the threshold.
C1_CountIsRecorded ==
    \A u \in Users : Ledger(u) = recorded[u]

\* C1 witness: a capture call has recorded a violation for a user already past
\* the threshold, and the count followed.
C1_Witness ==
    \E u \in Users :
        /\ recorded[u] > MAX_VIOLATIONS
        /\ Ledger(u) = recorded[u]
        /\ req.endpoint = "capture" /\ req.username = u
        /\ resp.token = "MAX_VIOLATIONS"

\* C2: once a user's count is at or above the threshold, every call that then
\* records a violation for that user returns MAX_VIOLATIONS, never VIOLATION.
C2_TerminalIsSticky ==
    [][ \A u \in Users :
            (Ledger(u) >= MAX_VIOLATIONS /\ recorded'[u] = recorded[u] + 1)
                => (resp'.token = "MAX_VIOLATIONS" /\ resp'.status = 200) ]_vars

\* C2 witness: a standalone event call was answered MAX_VIOLATIONS for a user
\* whose count was above the threshold before it.
C2_Witness ==
    \E u \in Users :
        /\ Ledger(u) > MAX_VIOLATIONS + 1
        /\ req.endpoint \in EventEndpoints /\ req.username = u
        /\ resp.token = "MAX_VIOLATIONS"

\* C3: for a user starting without violations, the k-th recording call returns
\* VIOLATION with count k and the kind of its site for k = 1..9, and the 10th is
\* the first to return MAX_VIOLATIONS.
C3_KthCallReturnsK ==
    [][ \A u \in Users :
            recorded'[u] = recorded[u] + 1 =>
                LET k == recorded'[u] IN
                /\ req'.username = u
                /\ k < MAX_VIOLATIONS =>
                      /\ resp'.token = "VIOLATION" /\ resp'.count = k
                      /\ resp'.status = 200
                      /\ IF req'.endpoint \in EventEndpoints
                         THEN resp'.kind = EventKind(req'.endpoint)
                         ELSE resp'.kind \in CaptureKinds
                /\ k >= MAX_VIOLATIONS => resp'.token = "MAX_VIOLATIONS" ]_vars

\* C3 witness: the 10th recording for bob, a tab-change report, got MAX_VIOLATIONS.
C3_Witness ==
    /\ recorded["bob"] = MAX_VIOLATIONS
    /\ req.endpoint = "tab-change-violation" /\ req.username = "bob"
    /\ resp.token = "MAX_VIOLATIONS"

\* A capture request that passes the field checks and decodes to a frame.
WellFormed(form) ==
    form.endpoint = "capture" /\ ~Missing(form.username) /\ Len(form.image) = 2

\* A detector without a try/except of its own fails on the request's frame.
Uncaught(form) == Raises(form.frame, "multi_face") \/ Raises(form.frame, "gaze")

\* The identity check of a frame against the supplied reference fails.
IdentityFails(form) ==
    ~compare_faces(form.reference_face, form.frame)

\* The request is one whose handling records a violation: a standalone event
\* with a username, or a capture that passes the multi-face and identity checks
\* and whose frame or noise flag violates.
Violating(form) ==
    \/ form.endpoint \in EventEndpoints /\ ~Missing(form.username)
    \/ /\ WellFormed(form) /\ form.reference_face # NONE
       /\ ~Raises(form.frame, "multi_face")
       /\ form.frame.faces <= 1 /\ ~IdentityFails(form)
       /\ \/ detect_prohibited_items(form.frame) # NONE
          \/ /\ ~Raises(form.frame, "gaze")
             /\ ~detect_gaze(form.frame) \/ form.noise_violation = "true"

\* C4 as stated: once a user's count has reached the threshold, every later
\* capture or standalone event call naming that user yields MAX_VIOLATIONS.
C4_Original ==
    [][ \A u \in Users :
            ( /\ Ledger(u) >= MAX_VIOLATIONS
              /\ req'.username = u
              /\ req'.endpoint \in EventEndpoints \cup {"capture"} )
                => resp'.token = "MAX_VIOLATIONS" ]_vars

\* C4 amended: once a user's count has reached the threshold, a later capture or
\* standalone event call naming that user yields MAX_VIOLATIONS exactly when it
\* records a violation; a capture call that records nothing keeps its own
\* response (OK, MULTIPLE_FACES, FACE_MISMATCH or an error) and leaves the count.
C4_TerminalWhenRecording ==
    [][ \A u \in Users :
            ( /\ Ledger(u) >= MAX_VIOLATIONS
              /\ req'.username = u
              /\ req'.endpoint \in EventEndpoints \cup {"capture"} )
                => /\ resp'.token # "VIOLATION"
                   /\ (resp'.token = "MAX_VIOLATIONS") <=> Violating(req')
                   /\ ~Violating(req') =>
                         /\ resp'.token \in {"OK", "MULTIPLE_FACES", "FACE_MISMATCH",
                                             "ERROR", "INTERNAL_SERVER_ERROR"}
                         /\ Ledger(u)' = Ledger(u) ]_vars

\* C4 witness: a capture call with a clean, matching frame for a user at or above
\* the threshold was answered OK.
C4_Witness ==
    \E u \in Users :
        /\ Ledger(u) >= MAX_VIOLATIONS
        /\ WellFormed(req) /\ req.username = u /\ req.reference_face = "ref.png"
        /\ ~Violating(req) /\ req.frame.faces = 1 /\ req.frame.sim = MatchSim
        /\ req.frame.raises = "none"
        /\ resp.token = "OK"

\* The recording calls of ConcSpec that have returned for user u.
Returned(u) ==
    { t \in Threads : pc[t] = "done" /\ tform[t].username = u /\ tform[t].kind \in ConcKinds }

Quiescent == \A t \in Threads : pc[t] \in {"idle", "done"}

\* C5: concurrent recording calls for one user lose no increment: when the n
\* calls made for a fresh user have all returned, the stored count is n.
C5_NoLostIncrement ==
    Quiescent => \A u \in Users : Ledger(u) = Cardinality(Returned(u))

\* C6: concurrent recording calls for one user each report the count of their
\* own increment, and no two of them return VIOLATION with the same count.
C6_DistinctCounts ==
    /\ \A t \in Threads :
          (pc[t] = "done" /\ tresp[t].token = "VIOLATION")
              => tresp[t].count = loaded[t] + 1
    /\ \A t1, t2 \in Threads :
          ( /\ t1 # t2
            /\ pc[t1] = "done" /\ pc[t2] = "done"
            /\ tform[t1].username = tform[t2].username
            /\ tresp[t1].token = "VIOLATION" /\ tresp[t2].token = "VIOLATION" )
              => tresp[t1].count # tresp[t2].count

\* The five checks of the full capture pipeline, in the order of the code.
CheckNames == <<"multi_face", "identity", "prohibited_item", "gaze", "noise">>

\* Whether check i fails on the request.
CheckFails(form, i) ==
    CASE i = 1 -> form.frame.faces > 1
      [] i = 2 -> IdentityFails(form)
      [] i = 3 -> detect_prohibited_items(form.frame) # NONE
      [] i = 4 -> ~detect_gaze(form.frame)
      [] i = 5 -> form.noise_violation = "true"

\* The first failing check, 6 when all five pass.
FirstFailing(form) ==
    IF CheckFails(form, 1) THEN 1
    ELSE IF CheckFails(form, 2) THEN 2
    ELSE IF CheckFails(form, 3) THEN 3
    ELSE IF CheckFails(form, 4) THEN 4
    ELSE IF CheckFails(form, 5) THEN 5
    ELSE 6

\* C7: a capture call that supplies a reference runs multi-face, identity,
\* prohibited-item, gaze and noise in this order up to the first failing check
\* and no further, names that check in its response, records nothing for
\* MULTIPLE_FACES and FACE_MISMATCH and exactly one violation otherwise, and
\* returns OK only when all five pass.
C7_FirstFailingCheckDecides ==
    [][ (WellFormed(req') /\ req'.reference_face # NONE /\ ~Uncaught(req')) =>
            \A i \in {FirstFailing(req')} :
            LET u == req'.username IN
            /\ ran' = SubSeq(CheckNames, 1, IF i = 6 THEN 5 ELSE i)
            /\ i = 1 => resp' = Plain("MULTIPLE_FACES")
            /\ i = 2 => resp' = Plain("FACE_MISMATCH")
            /\ i \in 3..5 =>
                  /\ resp'.token \in {"VIOLATION", "MAX_VIOLATIONS"}
                  /\ resp'.token = "VIOLATION" =>
                        /\ resp'.kind = <<"", "", "PROHIBITED_ITEM", "GAZE_VIOLATION",
                                          "NOISE_VIOLATION">>[i]
                        /\ resp'.item = (IF i = 3 THEN detect_prohibited_items(req'.frame)
                                                   ELSE "")
            /\ (resp' = Plain("OK")) <=> (i = 6)
            /\ Count(violation_counts', u) = Ledger(u) + (IF i \in 3..5 THEN 1 ELSE 0)
            /\ \A v \in Users \ {u} : Count(violation_counts', v) = Ledger(v) ]_vars

\* C7 witness: a frame with a prohibited item, an off-centre gaze and the noise
\* flag set was answered for the prohibited item alone, after three checks.
C7_Witness ==
    /\ WellFormed(req) /\ req.reference_face = "ref.png"
    /\ req.frame.faces = 1 /\ req.frame.sim = MatchSim
    /\ req.frame.boxes = PhoneBoxes /\ req.frame.eyes = AwayEyes
    /\ req.noise_violation = "true"
    /\ resp.token = "VIOLATION" /\ resp.kind = "PROHIBITED_ITEM"
    /\ ran = <<"multi_face", "identity", "prohibited_item">>
    /\ Ledger(req.username) = 1

\* C8: a capture call whose identity check fails returns FACE_MISMATCH and
\* leaves the ledger as it was, whatever else the frame shows.
C8_MismatchLeavesLedger ==
    [][ ( /\ WellFormed(req') /\ req'.reference_face # NONE
          /\ ~Raises(req'.frame, "multi_face") /\ req'.frame.faces <= 1
          /\ IdentityFails(req') )
            => /\ resp' = Plain("FACE_MISMATCH")
               /\ violation_counts' = violation_counts
               /\ recorded' = recorded ]_vars

\* C8 witness: a mismatching frame that also shows a prohibited item, an
\* off-centre gaze and noise was answered FACE_MISMATCH with the user still at 0.
C8_Witness ==
    /\ WellFormed(req) /\ req.reference_face = "ref.png"
    /\ req.frame.faces = 1 /\ req.frame.sim = MismatchSim
    /\ req.frame.boxes = PhoneBoxes /\ req.frame.eyes = AwayEyes
    /\ req.noise_violation = "true"
    /\ resp.token = "FACE_MISMATCH"
    /\ Ledger(req.username) = 0 /\ req.username \notin DOMAIN violation_counts

\* C9: a capture call without a reference runs the multi-face check only:
\* MULTIPLE_FACES for more than one face and OK otherwise, whatever the noise
\* flag and the rest of the frame, and the ledger stays as it was.
C9_EnrollmentOnlyCountsFaces ==
    [][ ( /\ WellFormed(req') /\ req'.reference_face = NONE
          /\ ~Raises(req'.frame, "multi_face") ) =>
            /\ resp' = (IF req'.frame.faces > 1 THEN Plain("MULTIPLE_FACES")
                                                ELSE Plain("OK"))
            /\ ran' = <<"multi_face">>
            /\ violation_counts' = violation_counts
            /\ recorded' = recorded ]_vars

\* C9 witness: an enrollment call with one face, the noise flag set and a
\* prohibited item in the frame was answered OK.
C9_Witness ==
    /\ WellFormed(req) /\ req.reference_face = NONE
    /\ req.frame.faces = 1 /\ req.noise_violation = "true"
    /\ req.frame.boxes = PhoneBoxes
    /\ resp = Plain("OK")

\* C10: a capture call whose image payload does not split into exactly two
\* parts is answered ERROR with status 400, and no check is evaluated.
C10_MalformedPayloadIsError ==
    ( /\ req.endpoint = "capture" /\ ~Missing(req.username)
      /\ req.image \in MalformedImages )
        => resp = ERROR400 /\ ran = <<>>

\* The request lacks a field its endpoint requires: the field is absent or empty.
LacksRequiredField(form) ==
    \/ /\ form.endpoint = "capture"
       /\ form.image = <<>> \/ form.username \in {NONE, ""}
    \/ form.endpoint = "validate-face" /\ form.image = <<>>
    \/ form.endpoint \in EventEndpoints /\ form.username \in {NONE, ""}

\* C11: a call that lacks a required field (image or username for capture,
\* image for validate-face, username for a standalone event) is answered ERROR
\* with status 400 before any detector runs, and the ledger stays as it was: no
\* entry is created and none is incremented.
C11_MissingFieldIsError ==
    [][ LacksRequiredField(req') =>
            /\ resp' = ERROR400
            /\ ran' = <<>>
            /\ violation_counts' = violation_counts
            /\ recorded' = recorded ]_vars

\* C11 witness: a tab-change report with an empty username, made after alice
\* had one violation, was answered ERROR and created no entry.
C11_Witness ==
    /\ req.endpoint = "tab-change-violation" /\ req.username = ""
    /\ resp = ERROR400
    /\ Ledger("alice") = 1
    /\ "" \notin DOMAIN violation_counts
\* The frame as it would be if the detector that fails on it had run and found
\* nothing.
Quiet(frame) ==
    CASE frame.raises = "multi_face" ->
            [frame EXCEPT !.raises = "none", !.faces = IF @ > 1 THEN 1 ELSE @]
      [] frame.raises = "prohibited_item" ->
            [frame EXCEPT !.raises = "none", !.boxes = NoBoxes, !.ear = FALSE]
      [] frame.raises = "gaze" ->
            [frame EXCEPT !.raises = "none", !.eyes = CenterEyes]
      [] OTHER -> frame

\* C12: a failure of a detector inside the multi-face, prohibited-item or gaze
\* check of capture is caught and counts as "nothing detected": the call is
\* answered, evaluates the checks and leaves the ledger exactly as it would had
\* the detector found nothing, and no failure reaches the caller.
C12_DetectorFailureIsNoDetection ==
    [][ (WellFormed(req') /\ req'.frame.raises # "none") =>
            LET o == capture([req' EXCEPT !.frame = Quiet(@)], violation_counts, TRUE) IN
            /\ resp' # Unhandled
            /\ resp' = o.resp
            /\ ran' = o.ran
            /\ violation_counts' = o.counts ]_vars

\* The cases in which the identity comparison has to fail closed: the reference
\* supplied is empty, not there or no image, or the appearance score is below
\* 0.7 and the reference or the frame shows no face.
FailClosedCase(form) ==
    \/ form.reference_face \in {"", "missing.png", "corrupt.png"}
    \/ /\ form.frame.sim.score < 70
       /\ form.reference_face = "noface.png" \/ form.frame.faces = 0

\* C13: a capture call that supplies a reference and reaches the identity check
\* is answered FACE_MISMATCH whenever the reference is missing or unreadable, or
\* the geometry tier finds no face in the reference or in the frame; the
\* prohibited-item, gaze and noise checks are not evaluated and nothing is
\* recorded.
C13_IdentityFailsClosed ==
    [][ ( /\ WellFormed(req') /\ req'.reference_face # NONE
          /\ ~Raises(req'.frame, "multi_face") /\ req'.frame.faces <= 1
          /\ FailClosedCase(req') )
            => /\ resp' = Plain("FACE_MISMATCH")
               /\ ran' = <<"multi_face", "identity">>
               /\ violation_counts' = violation_counts
               /\ recorded' = recorded ]_vars

\* C13 witness: a frame that passes every check, sent with a reference that is
\* no image, was answered FACE_MISMATCH after the identity check.
C13_Witness ==
    /\ WellFormed(req) /\ req.reference_face = "corrupt.png"
    /\ req.frame.faces = 1 /\ req.frame.sim = MatchSim
    /\ req.frame.boxes = NoBoxes /\ req.frame.eyes = CenterEyes
    /\ resp = Plain("FACE_MISMATCH")
    /\ ran = <<"multi_face", "identity">>

\* C14: in validate-face, whenever a reference is supplied and a face is
\* detected in the frame, the identity comparison is run and the answer is
\* FACE_MATCH or NO_FACE_MATCH; a supplied reference that is missing or
\* unreadable gives NO_FACE_MATCH, and FACE_DETECTED is kept for calls without
\* a reference.
C14_SuppliedReferenceIsCompared ==
    ( /\ req.endpoint = "validate-face" /\ Len(req.image) = 2
      /\ req.frame.faces >= 1
      /\ req.reference_face \notin {NONE, ""} )
        => /\ resp.token \in {"FACE_MATCH", "NO_FACE_MATCH"}
           /\ ran = <<"face", "identity">>
           /\ req.reference_face \in {"missing.png", "corrupt.png"}
                 => resp = Plain("NO_FACE_MATCH")

\* The gaze ratio the claim gives an eye, as a fraction: 1/2 for missing
\* landmarks or an eye of width zero, else (iris - left) / (right - left).
RatioNum(eye) == IF ~eye.ok \/ eye.r = eye.l THEN 1 ELSE eye.iris - eye.l
RatioDen(eye) == IF ~eye.ok \/ eye.r = eye.l THEN 2 ELSE eye.r - eye.l

\* The average of the two eyes' ratios against 0.35 and 0.65, in whole numbers:
\* (nl/dl + nr/dr) / 2 compared with 35/100 and 65/100.
AvgTimes(frame) ==
    100 * ( RatioNum(frame.eyes.left) * RatioDen(frame.eyes.right)
          + RatioNum(frame.eyes.right) * RatioDen(frame.eyes.left) )
Scale(frame) == 2 * RatioDen(frame.eyes.left) * RatioDen(frame.eyes.right)

AvgBelowBand(frame) == AvgTimes(frame) < 35 * Scale(frame)
AvgAboveBand(frame) == AvgTimes(frame) > 65 * Scale(frame)
AvgOnBoundary(frame) ==
    AvgTimes(frame) = 35 * Scale(frame) \/ AvgTimes(frame) = 65 * Scale(frame)

GazeProbed == probe.fn = "detect_gaze" /\ probe.done

\* C15 as stated: an averaged gaze ratio of exactly 0.35 or exactly 0.65 is a
\* violation.
C15_Original ==
    (GazeProbed /\ probe.input.faces >= 1 /\ AvgOnBoundary(probe.input))
        => probe.output = FALSE

\* C15 amended: the gaze check reports a violation exactly when a face is found
\* and the average of the two eyes' ratios is strictly below 0.35 or strictly
\* above 0.65, so that exactly 0.35, exactly 0.65 and 0.5 are no violations; an
\* eye whose landmarks are missing or whose width is zero counts as 0.5; without
\* a face there is no violation.
C15_GazeBandIsOpen ==
    GazeProbed =>
        ( probe.output = FALSE <=>
            /\ probe.input.faces >= 1
            /\ AvgBelowBand(probe.input) \/ AvgAboveBand(probe.input) )

\* C15 witness: a face whose eyes both stand at exactly 0.35 was probed and
\* found to be no violation.
C15_Witness ==
    /\ GazeProbed /\ probe.input.faces = 1
    /\ probe.input.eyes = [left |-> EyeAt(350), right |-> EyeAt(350)]
    /\ AvgOnBoundary(probe.input)
    /\ probe.output = TRUE

\* The state of a user by the count: 0 Clean, 1 Flagging, 2 Terminated.
Phase(count) ==
    IF count = 0 THEN 0 ELSE IF count < MAX_VIOLATIONS THEN 1 ELSE 2

\* C16: no call of any endpoint decreases, resets or deletes a count: every
\* entry of the ledger stays and never gets smaller, so a user only moves from
\* Clean to Flagging to Terminated, and a user at or above the threshold stays
\* there.
C16_CountsNeverDecrease ==
    [][ /\ DOMAIN violation_counts \subseteq DOMAIN violation_counts'
        /\ \A u \in DOMAIN violation_counts :
              /\ violation_counts'[u] >= violation_counts[u]
              /\ Phase(violation_counts'[u]) >= Phase(violation_counts[u])
              /\ violation_counts[u] >= MAX_VIOLATIONS
                    => violation_counts'[u] >= MAX_VIOLATIONS ]_vars

\* C17: validate-face and submit never touch the ledger: whatever the input and
\* the response of the call, every count is after it what it was before.
C17_PresenceAndSubmitLeaveLedger ==
    [][ req'.endpoint \in {"validate-face", "submit"} =>
            /\ violation_counts' = violation_counts
            /\ recorded' = recorded ]_vars

\* C17 witness: a validate-face call that found no match, made when alice had
\* three violations, left her at three.
C17_Witness ==
    /\ req.endpoint = "validate-face"
    /\ resp = Plain("NO_FACE_MATCH")
    /\ Ledger("alice") = 3 /\ recorded["alice"] = 3

\* The category the label table gives a label, whatever its case; NONE for a
\* label that is not in the table.
Category(label) ==
    CASE label \in {"cell phone", "Cell Phone", "CELL PHONE"} -> "MOBILE_PHONE"
      [] label \in {"book", "Book", "BOOK"}                   -> "BOOK"
      [] OTHER                                                -> NONE

\* The positions of the detections that are in the table with a confidence of
\* more than floor hundredths.
TableHits(boxes, floor) ==
    { i \in 1..Len(boxes) : Category(boxes[i].label) # NONE /\ boxes[i].conf > floor }

First(hits) == CHOOSE i \in hits : \A j \in hits : i <= j

\* What the prohibited-item check has to give for a frame when the detections
\* above the floor count: the category of the first hit without the ear
\* heuristic, else the heuristic's verdict.
ExpectedItem(frame, floor) ==
    LET hits == TableHits(frame.boxes, floor) IN
    IF hits # {}
    THEN [item |-> Category(frame.boxes[First(hits)].label), heuristic |-> FALSE]
    ELSE [item |-> IF frame.ear THEN "AIRPODS_OR_HEADSET" ELSE NONE, heuristic |-> TRUE]

\* What capture has to answer a fresh user whose frame passes the multi-face
\* and identity checks and has a centred gaze and no noise.
ExpectedCapture(frame, floor) ==
    LET item == ExpectedItem(frame, floor).item IN
    IF item # NONE THEN Violation("PROHIBITED_ITEM", item, 1) ELSE Plain("OK")

ItemProbed ==
    /\ probe.done /\ probe.fn = "detect_prohibited_items"
    /\ probe.input.raises = "none"

FreshCaptured ==
    /\ probe.done /\ probe.fn = "capture"
    /\ probe.input.frame.raises = "none"

\* C18 as stated: a detection at exactly 0.5 counts.
C18_Original ==
    /\ ItemProbed => probe.output = ExpectedItem(probe.input, 49)
    /\ FreshCaptured => probe.output.resp = ExpectedCapture(probe.input.frame, 49)

\* C18 amended: the prohibited-item check returns the category of the first
\* detection, in the detector's order, whose lower-cased label is in the table
\* and whose confidence is above 0.5 (a detection at exactly 0.5 does not
\* count); the ear heuristic is consulted only when there is no such detection;
\* and capture answers a fresh user VIOLATION:PROHIBITED_ITEM:<category>:1 for
\* it, MOBILE_PHONE for a 'cell phone' at 0.8.
C18_FirstConfidentTableHit ==
    /\ ItemProbed => probe.output = ExpectedItem(probe.input, 50)
    /\ FreshCaptured =>
          /\ probe.output.resp = ExpectedCapture(probe.input.frame, 50)
          /\ probe.output.counts =
                (IF ExpectedItem(probe.input.frame, 50).item # NONE
                 THEN [u \in {"alice"} |-> 1] ELSE << >>)

\* C18 witness: capture for a fresh user, on a frame whose first detection is a
\* 'cell phone' at exactly 0.5 and whose second is a 'cell phone' at 0.8,
\* answered VIOLATION:PROHIBITED_ITEM:MOBILE_PHONE:1.
C18_Witness ==
    /\ FreshCaptured
    /\ probe.input.frame.boxes = << Box("cell phone", 50), Box("cell phone", 80) >>
    /\ probe.output.resp = Violation("PROHIBITED_ITEM", "MOBILE_PHONE", 1)
    /\ probe.output.counts = [u \in {"alice"} |-> 1]

\* The Euclidean length, in hundredths, of the displacements probed.
Length(d) ==
    CASE d = <<0, 0>>  -> 0
      [] d = <<3, 4>>  -> 5
      [] d = <<6, 8>>  -> 10
      [] d = <<5, 12>> -> 13

\* Whether the mean length of the seven displacements is below 0.1, that is,
\* whether their sum is below 0.7.
MeanBelowTenth(disp) ==
    Length(disp[1]) + Length(disp[2]) + Length(disp[3]) + Length(disp[4])
    + Length(disp[5]) + Length(disp[6]) + Length(disp[7]) < 70

FacesCompared ==
    /\ probe.done /\ probe.fn = "compare_faces"
    /\ probe.input.ref \in {"ref.png", "noface.png"}

\* C19: on a readable reference and frame, compare_faces declares a match when
\* the appearance score is at least 0.7, without extracting landmarks; below
\* 0.7 it extracts them and declares a match exactly when both images show a
\* face and the mean distance over the 7 key points is strictly below 0.1.
C19_TwoTierDecision ==
    FacesCompared =>
        LET frame == probe.input.frame IN
        IF frame.sim.score >= 70
        THEN probe.output = [match |-> TRUE, tiers |-> <<"template">>]
        ELSE /\ probe.output.tiers = <<"template", "landmarks">>
             /\ probe.output.match <=>
                   /\ probe.input.ref = "ref.png" /\ frame.faces >= 1
                   /\ MeanBelowTenth(frame.sim.disp)

\* C19 witness: with a score of 0.69 and both faces found, a mean distance of
\* exactly 0.1 was declared no match.
C19_Witness ==
    /\ FacesCompared /\ probe.input.ref = "ref.png"
    /\ probe.input.frame.faces = 1
    /\ probe.input.frame.sim = Sim(69, AllFar)
    /\ ~MeanBelowTenth(AllFar)
    /\ probe.output = [match |-> FALSE, tiers |-> <<"template", "landmarks">>]

\* The recording calls started for user u, returned or not.
Started(u) ==
    { t \in Threads : pc[t] # "idle" /\ tform[t].username = u /\ tform[t].kind \in ConcKinds }

\* C20: counters of different users are independent: no step of a call made
\* for one user changes the count of another, whatever the call's outcome, and
\* however the calls interleave, a user whose own recording calls do not
\* overlap has, once all calls have returned, the count of those calls alone.
C20_UsersAreIndependent ==
    /\ [][ \A t \in Threads : \A u \in Users :
              (pc'[t] # pc[t] /\ tform'[t].username # u)
                  => Count(violation_counts', u) = Ledger(u) ]_vars
    /\ [](Quiescent =>
            \A u \in Users :
                Cardinality(Started(u)) <= 1 => Ledger(u) = Cardinality(Returned(u)))

\* C20 witness: a recording call for alice, one for bob and a call for alice
\* that recorded nothing have all returned, and each user stands at 1.
C20_Witness ==
    /\ Quiescent
    /\ \E t1, t2, t3 \in Threads :
          /\ pc[t1] = "done" /\ tform[t1] = [username |-> "alice", kind |-> "FULLSCREEN"]
          /\ pc[t2] = "done" /\ tform[t2] = [username |-> "bob", kind |-> "TAB_CHANGE"]
          /\ pc[t3] = "done" /\ tform[t3] = [username |-> "alice", kind |-> ""]
    /\ Ledger("alice") = 1 /\ Ledger("bob") = 1

=============================================================================
